---- MODULE Spec2Model ----
(***************************************************************************)
(* Checkout / split-payment subsystem of the marketplace backend:          *)
(* CartService (cart documents, grouping), CheckOutService (fee            *)
(* arithmetic, order creation, provider sessions, webhook completion)      *)
(* and the Stripe webhook listener that schedules the completion task.     *)
(*                                                                         *)
(* Money is counted in mills (1/1000 of the currency unit), so that        *)
(* prices with more than two decimals (Product.price is a float) and the   *)
(* effect of round(x, 2) are both visible.  A value that lies exactly      *)
(* half-way between two cents is rounded by Python according to the        *)
(* binary representation of the float, which this model does not carry:    *)
(* both outcomes are possible (parameter "up").                            *)
(*                                                                         *)
(* Every handler is cut at its awaits: a step of the model is the code     *)
(* between two suspension points together with the store operation the     *)
(* second one performs.                                                    *)
(*                                                                         *)
(* The buyer sends one request at a time: a cart request or a              *)
(* create-sessions request starts when the response to the one before has  *)
(* arrived.  The provider delivers checkout.session.completed for a        *)
(* session it has created at any time and any number of times, and the     *)
(* reconciliations it starts run interleaved with everything else.         *)
(*                                                                         *)
(* checkout   the create-sessions requests, each at its position in        *)
(*            create_all_checkout_sessions, the last one with its response *)
(* hooks      the reconciliations in flight (a bag: two deliveries of one  *)
(*            event can stand at the same position with the same data)     *)
(* hook_log   <<session, outcome>> of the reconciliations that have ended  *)
(*            in "done" or in "not_found"                                  *)
(* clock      the value datetime.utcnow() returns next                     *)
(* requests   the number of requests and deliveries served so far          *)
(* preview    the last response of GET /checkout/cart-preview, if any      *)
(* webhook_response  the last response of POST /stripe-webhook, if any     *)
(***************************************************************************)
EXTENDS Integers, Sequences, FiniteSets, Bags, TLC

VARIABLES products, users, carts, orders, stripe_sessions, checkout, hooks, hook_log, clock, requests,
          preview, webhook_response, orders_response, cart_calls

vars == <<products, users, carts, orders, stripe_sessions, checkout, hooks, hook_log, clock, requests,
          preview, webhook_response, orders_response, cart_calls>>

----------------------------------------------------------------------------
(* Bounds of the model *)

MaxQty == 2          \* largest quantity of one cart line
MaxRequests == 4     \* cart requests, create-sessions requests and webhook deliveries served

----------------------------------------------------------------------------
(* Identifiers and the absent value of each optional field *)

Buyer == "buyer"
Sellers == {"sellerA", "sellerB"}
ProductIds == {"p1", "p2", "p3"}

NoAccount == "none"     \* stripe_connect_account_id / stripe_account_id is None
NoSession == 0          \* stripe_checkout_session_id is None
NoIntent == 0           \* stripe_payment_intent_id is None
NoTime == 0             \* completed_at is None

PENDING == "pending"
COMPLETED == "completed"

PLATFORM_FEE_PERCENT == 10

MinorUnit == 10      \* one cent, in mills

\* The catalogue at start: two one-time products of seller A and a
\* recurring product of seller B whose price has three decimals.
Catalogue ==
    [p \in ProductIds |->
        CASE p = "p1" -> [seller_id |-> "sellerA", price |-> 50000, is_recurring |-> FALSE,
                          status |-> "published", stripe_price_id |-> "price_p1"]
          [] p = "p2" -> [seller_id |-> "sellerA", price |-> 30000, is_recurring |-> FALSE,
                          status |-> "published", stripe_price_id |-> "price_p2"]
          [] p = "p3" -> [seller_id |-> "sellerB", price |-> 1996, is_recurring |-> TRUE,
                          status |-> "published", stripe_price_id |-> "price_p3"]]

----------------------------------------------------------------------------
(* Sequence helpers *)

RECURSIVE SelectSeqBy(_, _)
\* the list comprehension [item for item in items if item.product_id not in ids]
SelectSeqBy(items, ids) ==
    IF items = <<>> THEN <<>>
    ELSE IF Head(items).product_id \in ids
         THEN SelectSeqBy(Tail(items), ids)
         ELSE <<Head(items)>> \o SelectSeqBy(Tail(items), ids)

ProductIdsOf(items) == {items[i].product_id : i \in DOMAIN items}

\* next((item for item in cart.items if item.product_id == product_id), None)
IndexOfProduct(items, p) ==
    IF \E i \in DOMAIN items : items[i].product_id = p
    THEN CHOOSE i \in DOMAIN items :
            /\ items[i].product_id = p
            /\ \A j \in DOMAIN items : items[j].product_id = p => i <= j
    ELSE 0

----------------------------------------------------------------------------
(* Cart store *)

\* Cart.find_one(Cart.user_id == user_id): index of the first document, 0 if none
FindCart(cs, u) ==
    IF \E i \in DOMAIN cs : cs[i].user_id = u
    THEN CHOOSE i \in DOMAIN cs :
            /\ cs[i].user_id = u
            /\ \A j \in DOMAIN cs : cs[j].user_id = u => i <= j
    ELSE 0

\* CartService.get_or_create_cart: the store after the call
get_or_create_cart(cs, u) ==
    IF FindCart(cs, u) = 0 THEN Append(cs, [user_id |-> u, items |-> <<>>]) ELSE cs

\* the buyer has the response to every request sent
BuyerIdle ==
    \A t \in DOMAIN checkout : checkout[t].pc \in {"idle", "done", "failed", "returned"}

\* add_item without the search for an existing line
add_item_AppendsAlways(u, p, q) ==
    /\ BuyerIdle
    /\ requests < MaxRequests
    /\ requests' = requests + 1
    /\ p \in DOMAIN products
    /\ products[p].status = "published"
    /\ LET cs == get_or_create_cart(carts, u)
           c == FindCart(cs, u)
       IN  /\ Len(cs[c].items) < Cardinality(ProductIds)
           /\ carts' = [cs EXCEPT ![c].items = Append(@, [product_id |-> p, quantity |-> q])]
    /\ UNCHANGED <<cart_calls, orders_response, webhook_response, preview, products, users, orders, stripe_sessions, checkout, hooks, hook_log, clock>>

add_item(u, p, q) ==
    /\ BuyerIdle
    /\ requests < MaxRequests
    /\ requests' = requests + 1
    /\ p \in DOMAIN products
    /\ products[p].status = "published"
    /\ LET cs == get_or_create_cart(carts, u)
           c == FindCart(cs, u)
           i == IndexOfProduct(cs[c].items, p)
       IN  /\ (IF i = 0 THEN q ELSE cs[c].items[i].quantity + q) <= MaxQty
           /\ carts' = [cs EXCEPT ![c].items =
                          IF i = 0
                          THEN Append(@, [product_id |-> p, quantity |-> q])
                          ELSE [@ EXCEPT ![i].quantity = @ + q]]
    /\ UNCHANGED <<cart_calls, orders_response, webhook_response, preview, products, users, orders, stripe_sessions, checkout, hooks, hook_log, clock>>

remove_item(u, p) ==
    /\ BuyerIdle
    /\ requests < MaxRequests
    /\ requests' = requests + 1
    /\ LET cs == get_or_create_cart(carts, u)
           c == FindCart(cs, u)
       IN  carts' = [cs EXCEPT ![c].items = SelectSeqBy(@, {p})]
    /\ UNCHANGED <<cart_calls, orders_response, webhook_response, preview, products, users, orders, stripe_sessions, checkout, hooks, hook_log, clock>>

update_item_quantity(u, p, q) ==
    /\ BuyerIdle
    /\ requests < MaxRequests
    /\ requests' = requests + 1
    /\ IF q <= 0
       THEN LET cs == get_or_create_cart(carts, u)
                c == FindCart(cs, u)
            IN  carts' = [cs EXCEPT ![c].items = SelectSeqBy(@, {p})]
       ELSE LET cs == get_or_create_cart(carts, u)
                c == FindCart(cs, u)
                i == IndexOfProduct(cs[c].items, p)
            IN  IF i = 0
                THEN carts' = cs      \* 404 "Item not in cart"; the cart may have been created
                ELSE carts' = [cs EXCEPT ![c].items[i].quantity = q]
    /\ UNCHANGED <<cart_calls, orders_response, webhook_response, preview, products, users, orders, stripe_sessions, checkout, hooks, hook_log, clock>>

clear_cart(u) ==
    /\ BuyerIdle
    /\ requests < MaxRequests
    /\ requests' = requests + 1
    /\ LET cs == get_or_create_cart(carts, u)
           c == FindCart(cs, u)
       IN  carts' = [cs EXCEPT ![c].items = <<>>]
    /\ UNCHANGED <<cart_calls, orders_response, webhook_response, preview, products, users, orders, stripe_sessions, checkout, hooks, hook_log, clock>>

----------------------------------------------------------------------------
(* Rounding and the fee calculator *)

\* n/d rounded to the nearest integer; "up" decides an exact half
RoundDiv(n, d, up) ==
    LET q == n \div d
        r == n % d
    IN  IF 2 * r < d THEN q
        ELSE IF 2 * r > d THEN q + 1
        ELSE IF up THEN q + 1 ELSE q

\* round(x, 2) of an amount in mills
round2(x, up) == 10 * RoundDiv(x, 10, up)

\* calculate_platform_fee with the fee not subtracted from the seller's part
calculate_platform_fee_NoSubtract(amount, up1, up2) ==
    LET platform_fee == 10 * RoundDiv(amount * PLATFORM_FEE_PERCENT, 1000, up1)
        seller_amount == round2(amount, up2)
    IN  <<platform_fee, seller_amount>>

\* CheckOutService.calculate_platform_fee: <<platform_fee, seller_amount>>
calculate_platform_fee(amount, up1, up2) ==
    LET platform_fee == 10 * RoundDiv(amount * PLATFORM_FEE_PERCENT, 1000, up1)
        seller_amount == round2(amount - platform_fee, up2)
    IN  <<platform_fee, seller_amount>>

----------------------------------------------------------------------------
(* Cart grouper *)

\* the key of a group taken to be the seller alone
GroupKeyIndex_IgnoresRecurring(groups, seller, rec) ==
    IF \E i \in DOMAIN groups : groups[i].seller_id = seller
    THEN CHOOSE i \in DOMAIN groups : groups[i].seller_id = seller
    ELSE 0

\* grouped.get((seller_id, is_recurring)): index of the group of that key, 0 if none
GroupKeyIndex(groups, seller, rec) ==
    IF \E i \in DOMAIN groups : groups[i].seller_id = seller /\ groups[i].is_recurring = rec
    THEN CHOOSE i \in DOMAIN groups : groups[i].seller_id = seller /\ groups[i].is_recurring = rec
    ELSE 0

RECURSIVE GroupItems_KeepsUnpublished(_, _, _, _, _)
\* the loop without the test of the product's status
GroupItems_KeepsUnpublished(items, groups, ps, us, up) ==
    IF items = <<>> THEN groups
    ELSE LET item == Head(items)
             rest == Tail(items)
         IN  IF item.product_id \notin DOMAIN ps
             THEN GroupItems_KeepsUnpublished(rest, groups, ps, us, up)
             ELSE LET product == ps[item.product_id]
                  IN  IF product.seller_id \notin DOMAIN us
                      THEN GroupItems_KeepsUnpublished(rest, groups, ps, us, up)
                      ELSE LET g == GroupKeyIndex(groups, product.seller_id, product.is_recurring)
                               item_total == product.price * item.quantity
                               line == [product_id |-> item.product_id,
                                        quantity |-> item.quantity,
                                        product |-> product,
                                        item_total |-> round2(item_total, up)]
                               base == IF g = 0
                                       THEN Append(groups, [seller_id |-> product.seller_id,
                                                            is_recurring |-> product.is_recurring,
                                                            group_total_price |-> 0,
                                                            items |-> <<>>])
                                       ELSE groups
                               k == IF g = 0 THEN Len(groups) + 1 ELSE g
                           IN  GroupItems_KeepsUnpublished(rest,
                                          [base EXCEPT ![k].group_total_price = @ + item_total,
                                                       ![k].items = Append(@, line)],
                                          ps, us, up)

RECURSIVE GroupItems(_, _, _, _, _)
\* the loop of get_grouped_cart_for_checkout over cart.items; groups keep the
\* order in which their keys were first met (dict insertion order)
GroupItems(items, groups, ps, us, up) ==
    IF items = <<>> THEN groups
    ELSE LET item == Head(items)
             rest == Tail(items)
         IN  IF item.product_id \notin DOMAIN ps \/ ps[item.product_id].status /= "published"
             THEN GroupItems(rest, groups, ps, us, up)
             ELSE LET product == ps[item.product_id]
                  IN  IF product.seller_id \notin DOMAIN us
                      THEN GroupItems(rest, groups, ps, us, up)
                      ELSE LET g == GroupKeyIndex(groups, product.seller_id, product.is_recurring)
                               item_total == product.price * item.quantity
                               line == [product_id |-> item.product_id,
                                        quantity |-> item.quantity,
                                        product |-> product,
                                        item_total |-> round2(item_total, up)]
                               base == IF g = 0
                                       THEN Append(groups, [seller_id |-> product.seller_id,
                                                            is_recurring |-> product.is_recurring,
                                                            group_total_price |-> 0,
                                                            items |-> <<>>])
                                       ELSE groups
                               k == IF g = 0 THEN Len(groups) + 1 ELSE g
                           IN  GroupItems(rest,
                                          [base EXCEPT ![k].group_total_price = @ + item_total,
                                                       ![k].items = Append(@, line)],
                                          ps, us, up)

\* CartService.get_grouped_cart_for_checkout on the cart items read
get_grouped_cart_for_checkout(items, ps, us, up) ==
    LET groups == GroupItems(items, <<>>, ps, us, up)
    IN  [i \in DOMAIN groups |->
            [groups[i] EXCEPT !.group_total_price = round2(@, up)]]

----------------------------------------------------------------------------
(* Session orchestrator: create_all_checkout_sessions and, per group,      *)
(* create_checkout_session                                                 *)

RECURSIVE SumLines_NoQuantity(_)
\* the total with the quantity of each line left out
SumLines_NoQuantity(items) ==
    IF items = <<>> THEN 0
    ELSE Head(items).product.price + SumLines_NoQuantity(Tail(items))

RECURSIVE SumLines(_)
\* total_amount += product.price * quantity over the group's items
SumLines(items) ==
    IF items = <<>> THEN 0
    ELSE Head(items).product.price * Head(items).quantity + SumLines(Tail(items))

\* cart_items: the item snapshot stored on the Order
SnapshotOf(items) ==
    [i \in DOMAIN items |-> [product_id |-> items[i].product_id, quantity |-> items[i].quantity]]

\* Order(...) as constructed in step 5 of create_checkout_session
NewOrder(id, user_id, group, account, fee, now) ==
    [id |-> id,
     user_id |-> user_id,
     seller_id |-> group.seller_id,
     items |-> SnapshotOf(group.items),
     total_amount |-> SumLines(group.items),
     platform_fee_amount |-> fee[1],
     seller_amount |-> fee[2],
     is_recurring |-> group.is_recurring,
     status |-> PENDING,
     stripe_checkout_session_id |-> NoSession,
     stripe_payment_intent_id |-> NoIntent,
     stripe_account_id |-> account,
     created_at |-> now,
     updated_at |-> now,
     completed_at |-> NoTime]

\* the field constraints of the Order model (pydantic validation)
OrderValid(o) ==
    /\ o.total_amount > 0
    /\ o.platform_fee_amount >= 0
    /\ o.seller_amount > 0

\* The fees in cents, below 3000, whose float is short of the cent: the
\* double nearest to c/100, multiplied by 100 in double arithmetic, is less
\* than c (0.29 * 100 is 28.999999999999996), so that int() gives c - 1.
TruncatedCents ==
    {29, 57, 58, 113, 114, 115, 116, 201, 203, 205, 207, 226, 228,
     230, 232, 251, 253, 255, 402, 406, 410, 414, 427, 431, 435, 439,
     452, 456, 460, 464, 477, 481, 485, 489, 502, 506, 510, 803, 804,
     812, 820, 828, 829, 837, 845, 853, 854, 862, 870, 878, 879, 887,
     895, 903, 904, 912, 920, 928, 929, 937, 945, 953, 954, 962, 970,
     978, 979, 987, 995, 1003, 1004, 1012, 1020, 1606, 1608, 1615,
     1624, 1631, 1633, 1640, 1649, 1656, 1658, 1665, 1674, 1681, 1683,
     1690, 1699, 1706, 1708, 1715, 1724, 1731, 1733, 1740, 1749, 1756,
     1758, 1765, 1774, 1781, 1783, 1790, 1799, 1806, 1808, 1815, 1824,
     1831, 1833, 1840, 1849, 1856, 1858, 1865, 1874, 1881, 1883, 1890,
     1899, 1906, 1908, 1915, 1924, 1931, 1933, 1940, 1949, 1956, 1958,
     1965, 1974, 1981, 1983, 1990, 1999, 2006, 2008, 2015, 2024, 2031,
     2033, 2040}

\* int(platform_fee * 100) of a fee that round(_, 2) has produced
platform_fee_cents(platform_fee) ==
    LET c == platform_fee \div MinorUnit
    IN  IF c \in TruncatedCents THEN c - 1 ELSE c

\* session_params handed to stripe.checkout.Session.create; a key that is
\* not set is the empty sequence
SessionParams(order, group) ==
    [stripe_account |-> order.stripe_account_id,
     mode |-> IF group.is_recurring THEN "subscription" ELSE "payment",
     metadata_order_id |-> order.id,
     payment_intent_data |->
        IF ~group.is_recurring
        THEN <<[application_fee_amount |-> platform_fee_cents(order.platform_fee_amount)]>>
        ELSE <<>>,
     subscription_data |->
        IF ~group.is_recurring
        THEN <<>>
        ELSE <<[application_fee_percent |-> PLATFORM_FEE_PERCENT]>>]

\* the HTTPException that ends the request: status code and the start of its detail
Fail(t, code, detail) ==
    [checkout EXCEPT ![t] = [pc |-> "failed", result |-> code, detail |-> detail,
                             order_ids |-> @.order_ids, groups |-> @.groups, idx |-> @.idx]]

\* the responses the buyer has received are no longer held
Returned ==
    [t \in DOMAIN checkout |->
        IF checkout[t].pc \in {"done", "failed"} THEN [pc |-> "returned"] ELSE checkout[t]]

\* create_all_checkout_sessions up to the end of the grouping
StartCheckout(t) ==
    /\ checkout[t].pc = "idle"
    /\ \A s \in 1..(t - 1) : checkout[s].pc \in {"done", "failed", "returned"}
    /\ requests < MaxRequests
    /\ requests' = requests + 1
    /\ \E up \in BOOLEAN :
        LET cs == get_or_create_cart(carts, Buyer)
            groups == get_grouped_cart_for_checkout(cs[FindCart(cs, Buyer)].items, products, users, up)
        IN  /\ carts' = cs
            /\ checkout' = [Returned EXCEPT ![t] =
                  IF groups = <<>>
                  THEN [pc |-> "failed", result |-> 400, detail |-> "Cart is empty",
                        order_ids |-> <<>>, groups |-> groups, idx |-> 0]
                  ELSE [pc |-> "validate", groups |-> groups, idx |-> 1, order_ids |-> <<>>]]
    /\ UNCHANGED <<cart_calls, orders_response, webhook_response, preview, products, users, orders, stripe_sessions, hooks, hook_log, clock>>

\* create_checkout_session with order.insert() left out before the session request
InsertOrder_Unsaved(t) ==
    /\ checkout[t].pc = "validate"
    /\ LET c == checkout[t]
           group == c.groups[c.idx]
           seller == users[group.seller_id]
       IN  IF seller.stripe_connect_account_id = NoAccount
           THEN checkout' = Fail(t, 500, "Checkout error: 400: Seller has not completed Stripe onboarding")
           ELSE \E up1, up2 \in BOOLEAN :
                  LET fee == calculate_platform_fee(SumLines(group.items), up1, up2)
                      order == NewOrder(Len(orders) + 1, Buyer, group,
                                        seller.stripe_connect_account_id, fee, clock)
                  IN  checkout' = [checkout EXCEPT ![t] =
                         [pc |-> "request", groups |-> c.groups, idx |-> c.idx,
                          order_ids |-> Append(c.order_ids, order.id),
                          order |-> order]]
    /\ UNCHANGED <<cart_calls, orders_response, webhook_response, preview, products, users, carts, orders, stripe_sessions, hooks, hook_log, clock, requests>>

\* the Order inserted before the seller and the price references are checked
InsertOrder_ChecksAfterInsert(t) ==
    /\ checkout[t].pc = "validate"
    /\ LET c == checkout[t]
           group == c.groups[c.idx]
           seller == users[group.seller_id]
       IN  IF seller.stripe_connect_account_id = NoAccount
           THEN /\ checkout' = Fail(t, 500, "Checkout error: 400: Seller has not completed Stripe onboarding")
                /\ orders' = Append(orders, NewOrder(Len(orders) + 1, Buyer, group, NoAccount,
                                                     <<0, SumLines(group.items)>>, clock))
                /\ UNCHANGED clock
           ELSE IF \E i \in DOMAIN group.items : group.items[i].product.stripe_price_id = "none"
           THEN /\ checkout' = Fail(t, 500, "Checkout error: 400: Product is missing Stripe price configuration")
                /\ UNCHANGED <<orders, clock>>
           ELSE \E up1, up2 \in BOOLEAN :
                  LET fee == calculate_platform_fee(SumLines(group.items), up1, up2)
                      order == NewOrder(Len(orders) + 1, Buyer, group,
                                        seller.stripe_connect_account_id, fee, clock)
                  IN  IF ~OrderValid(order)
                      THEN /\ checkout' = Fail(t, 500, "Checkout error")
                           /\ UNCHANGED <<orders, clock>>
                      ELSE \/ /\ orders' = Append(orders, order)
                              /\ UNCHANGED clock
                              /\ checkout' = [checkout EXCEPT ![t] =
                                    [pc |-> "request", groups |-> c.groups, idx |-> c.idx,
                                     order_ids |-> Append(c.order_ids, order.id),
                                     order |-> order]]
                           \/ /\ checkout' = Fail(t, 500, "Checkout error")       \* the insert fails
                              /\ UNCHANGED <<orders, clock>>
    /\ UNCHANGED <<cart_calls, orders_response, webhook_response, preview, products, users, carts, stripe_sessions, hooks, hook_log, requests>>

\* create_checkout_session, steps 1 to 5: the checks, the fee and order.insert()
InsertOrder(t) ==
    /\ checkout[t].pc = "validate"
    /\ LET c == checkout[t]
           group == c.groups[c.idx]
           seller == users[group.seller_id]
       IN  IF seller.stripe_connect_account_id = NoAccount
           THEN /\ checkout' = Fail(t, 500, "Checkout error: 400: Seller has not completed Stripe onboarding")
                /\ UNCHANGED <<orders, clock>>
           ELSE IF \E i \in DOMAIN group.items : group.items[i].product.stripe_price_id = "none"
           THEN /\ checkout' = Fail(t, 500, "Checkout error: 400: Product is missing Stripe price configuration")
                /\ UNCHANGED <<orders, clock>>
           ELSE \E up1, up2 \in BOOLEAN :
                  LET fee == calculate_platform_fee(SumLines(group.items), up1, up2)
                      order == NewOrder(Len(orders) + 1, Buyer, group,
                                        seller.stripe_connect_account_id, fee, clock)
                  IN  IF ~OrderValid(order)
                      THEN /\ checkout' = Fail(t, 500, "Checkout error")
                           /\ UNCHANGED <<orders, clock>>
                      ELSE \/ /\ orders' = Append(orders, order)
                              /\ UNCHANGED clock
                              /\ checkout' = [checkout EXCEPT ![t] =
                                    [pc |-> "request", groups |-> c.groups, idx |-> c.idx,
                                     order_ids |-> Append(c.order_ids, order.id),
                                     order |-> order]]
                           \/ /\ checkout' = Fail(t, 500, "Checkout error")       \* the insert fails
                              /\ UNCHANGED <<orders, clock>>
    /\ UNCHANGED <<cart_calls, orders_response, webhook_response, preview, products, users, carts, stripe_sessions, hooks, hook_log, requests>>

\* the session request with the Order deleted again when the provider refuses
RequestSession_Rollback(t) ==
    /\ checkout[t].pc = "request"
    /\ LET c == checkout[t]
       IN  \/ /\ stripe_sessions' = Append(stripe_sessions,
                     [id |-> Len(stripe_sessions) + 1] @@ SessionParams(c.order, c.groups[c.idx]))
              /\ checkout' = [checkout EXCEPT ![t].pc = "save",
                                 ![t].order.stripe_checkout_session_id = Len(stripe_sessions) + 1]
              /\ UNCHANGED orders
           \/ /\ checkout' = Fail(t, 400, "Stripe error")
              /\ orders' = SubSeq(orders, 1, Len(orders) - 1)
              /\ UNCHANGED stripe_sessions
    /\ UNCHANGED <<cart_calls, orders_response, webhook_response, preview, products, users, carts, hooks, hook_log, clock, requests>>

\* steps 6 to 9: stripe.checkout.Session.create(**session_params)
RequestSession(t) ==
    /\ checkout[t].pc = "request"
    /\ LET c == checkout[t]
       IN  \/ /\ stripe_sessions' = Append(stripe_sessions,
                     [id |-> Len(stripe_sessions) + 1] @@ SessionParams(c.order, c.groups[c.idx]))
              /\ checkout' = [checkout EXCEPT ![t].pc = "save",
                                 ![t].order.stripe_checkout_session_id = Len(stripe_sessions) + 1]
           \/ /\ checkout' = Fail(t, 400, "Stripe error")                       \* stripe.error.StripeError
              /\ UNCHANGED stripe_sessions
    /\ UNCHANGED <<cart_calls, orders_response, webhook_response, preview, products, users, carts, orders, hooks, hook_log, clock, requests>>

\* step 10 without the write of the session identifier
SaveOrder_Skipped(t) ==
    /\ checkout[t].pc = "save"
    /\ LET c == checkout[t]
       IN  checkout' = [checkout EXCEPT ![t] =
              IF c.idx = Len(c.groups)
              THEN [pc |-> "done", result |-> 200, detail |-> "", order_ids |-> c.order_ids,
                    groups |-> c.groups, idx |-> c.idx]
              ELSE [pc |-> "validate", groups |-> c.groups, idx |-> c.idx + 1,
                    order_ids |-> c.order_ids]]
    /\ UNCHANGED <<cart_calls, orders_response, webhook_response, preview, products, users, carts, orders, stripe_sessions, hooks, hook_log, clock, requests>>

\* step 10: order.save() writes the document held by the request
SaveOrder(t) ==
    /\ checkout[t].pc = "save"
    /\ LET c == checkout[t]
       IN  \/ /\ orders' = [orders EXCEPT ![c.order.id] = c.order]
              /\ checkout' = [checkout EXCEPT ![t] =
                    IF c.idx = Len(c.groups)
                    THEN [pc |-> "done", result |-> 200, detail |-> "", order_ids |-> c.order_ids,
                          groups |-> c.groups, idx |-> c.idx]
                    ELSE [pc |-> "validate", groups |-> c.groups, idx |-> c.idx + 1,
                          order_ids |-> c.order_ids]]
           \/ /\ checkout' = Fail(t, 500, "Checkout error")                       \* the write fails
              /\ UNCHANGED orders
    /\ UNCHANGED <<cart_calls, orders_response, webhook_response, preview, products, users, carts, stripe_sessions, hooks, hook_log, clock, requests>>

----------------------------------------------------------------------------
(* Payment provider and webhook reconciler *)

\* Order.find_one(Order.stripe_checkout_session_id == session_id): index, 0 if none
FindOrderBySession(os, sid) ==
    IF \E i \in DOMAIN os : os[i].stripe_checkout_session_id = sid
    THEN CHOOSE i \in DOMAIN os :
            /\ os[i].stripe_checkout_session_id = sid
            /\ \A j \in DOMAIN os : os[j].stripe_checkout_session_id = sid => i <= j
    ELSE 0

\* session.payment_intent of a completed session as the provider reports it:
\* a payment-mode session has a payment intent, a subscription-mode one has none
PaymentIntentOf(session) ==
    IF session.mode = "payment" THEN session.id ELSE NoIntent

\* the assignments without the one to status
CompletedOrder_NoStatus(order, payment_intent, now) ==
    [order EXCEPT !.stripe_payment_intent_id = payment_intent,
                  !.completed_at = now,
                  !.updated_at = now]

\* the payment intent assigned to the session identifier field as well
CompletedOrder_OverwritesSession(order, payment_intent, now) ==
    [order EXCEPT !.status = COMPLETED,
                  !.stripe_checkout_session_id = payment_intent,
                  !.stripe_payment_intent_id = payment_intent,
                  !.completed_at = now,
                  !.updated_at = now]

\* the assignments with the item snapshot emptied as the cart is
CompletedOrder_DropsItems(order, payment_intent, now) ==
    [order EXCEPT !.status = COMPLETED,
                  !.items = <<>>,
                  !.stripe_payment_intent_id = payment_intent,
                  !.completed_at = now,
                  !.updated_at = now]

\* the "Update order" assignments of handle_checkout_completion
CompletedOrder(order, payment_intent, now) ==
    [order EXCEPT !.status = COMPLETED,
                  !.stripe_payment_intent_id = payment_intent,
                  !.completed_at = now,
                  !.updated_at = now]

\* the bag of reconciliations with k taken out and, when it goes on, put back
\* at its next position
Moved(k, next) == (hooks (-) SetToBag({k})) (+) SetToBag(next)

\* the delivery with an Order.find_one that falls back to the first Order of
\* the store when none stores the session
FindOrder_AnyOrder(sid) ==
    /\ sid \in DOMAIN stripe_sessions
    /\ requests < MaxRequests
    /\ requests' = requests + 1
    /\ LET o == IF FindOrderBySession(orders, sid) = 0 /\ orders /= <<>>
                THEN 1 ELSE FindOrderBySession(orders, sid)
       IN  IF o = 0
           THEN /\ hook_log' = hook_log \cup {<<sid, "not_found">>}
                /\ UNCHANGED hooks
           ELSE /\ hooks' = hooks (+) SetToBag({
                      [pc |-> "retrieve", session_id |-> sid,
                       stripe_account_id |-> stripe_sessions[sid].stripe_account,
                       order |-> orders[o],
                       \* for the properties: a reconciliation of this session has ended
                       duplicate |-> <<sid, "done">> \in hook_log]})
                /\ UNCHANGED hook_log
    /\ UNCHANGED <<cart_calls, orders_response, webhook_response, preview, products, users, carts, orders, stripe_sessions, checkout, clock>>

\* stripe_webhook_listener for a verified checkout.session.completed event of
\* a session of a connected account, up to the end of Order.find_one in
\* handle_checkout_completion
FindOrder(sid) ==
    /\ sid \in DOMAIN stripe_sessions
    /\ requests < MaxRequests
    /\ requests' = requests + 1
    /\ LET o == FindOrderBySession(orders, sid)
       IN  IF o = 0
           THEN /\ hook_log' = hook_log \cup {<<sid, "not_found">>}
                /\ UNCHANGED hooks
           ELSE /\ hooks' = hooks (+) SetToBag({
                      [pc |-> "retrieve", session_id |-> sid,
                       stripe_account_id |-> stripe_sessions[sid].stripe_account,
                       order |-> orders[o],
                       \* for the properties: a reconciliation of this session has ended
                       duplicate |-> <<sid, "done">> \in hook_log]})
                /\ UNCHANGED hook_log
    /\ UNCHANGED <<cart_calls, orders_response, webhook_response, preview, products, users, carts, orders, stripe_sessions, checkout, clock>>

\* a reconciliation that starts again when the retrieval or the save raises
CompleteOrder_Retries(k) ==
    /\ BagIn(k, hooks)
    /\ k.pc = "retrieve"
    /\ \/ LET order == CompletedOrder(k.order,
                                      PaymentIntentOf(stripe_sessions[k.session_id]), clock)
          IN  /\ orders' = [orders EXCEPT ![order.id] = order]
              /\ clock' = clock + 1
              /\ hooks' = Moved(k, {[k EXCEPT !.pc = "cart", !.order = order]})
              /\ UNCHANGED hook_log
       \/ /\ hooks' = Moved(k, {[pc |-> "find", session_id |-> k.session_id,
                                   stripe_account_id |-> k.stripe_account_id]})
          /\ UNCHANGED <<orders, clock, hook_log>>
    /\ UNCHANGED <<cart_calls, orders_response, webhook_response, preview, products, users, carts, stripe_sessions, checkout, requests>>

\* stripe.checkout.Session.retrieve, the assignments and order.save()
CompleteOrder(k) ==
    /\ BagIn(k, hooks)
    /\ k.pc = "retrieve"
    /\ \/ LET order == CompletedOrder(k.order,
                                      PaymentIntentOf(stripe_sessions[k.session_id]), clock)
          IN  /\ orders' = [orders EXCEPT ![order.id] = order]
              /\ clock' = clock + 1
              /\ hooks' = Moved(k, {[k EXCEPT !.pc = "cart", !.order = order]})
              /\ UNCHANGED hook_log
       \/ /\ hooks' = Moved(k, {})                  \* retrieve or save raises
          /\ UNCHANGED <<orders, clock, hook_log>>
    /\ UNCHANGED <<cart_calls, orders_response, webhook_response, preview, products, users, carts, stripe_sessions, checkout, requests>>

\* the whole cart emptied instead of filtered
ReadCart_ClearsAll(k) ==
    /\ BagIn(k, hooks)
    /\ k.pc = "cart"
    /\ LET c == FindCart(carts, k.order.user_id)
       IN  IF c = 0
           THEN /\ hooks' = Moved(k, {})
                /\ hook_log' = hook_log \cup {<<k.session_id, "done">>}
           ELSE /\ hooks' = Moved(k, {[pc |-> "cart_save", session_id |-> k.session_id,
                                       duplicate |-> k.duplicate,
                                       cart |-> c,
                                       items |-> <<>>]})
                /\ UNCHANGED hook_log
    /\ UNCHANGED <<cart_calls, orders_response, webhook_response, preview, products, users, carts, orders, stripe_sessions, checkout, clock, requests>>

\* Cart.find_one and the filtering of the items read
ReadCart(k) ==
    /\ BagIn(k, hooks)
    /\ k.pc = "cart"
    /\ LET c == FindCart(carts, k.order.user_id)
       IN  IF c = 0
           THEN /\ hooks' = Moved(k, {})
                /\ hook_log' = hook_log \cup {<<k.session_id, "done">>}
           ELSE /\ hooks' = Moved(k, {[pc |-> "cart_save", session_id |-> k.session_id,
                                       duplicate |-> k.duplicate,
                                       cart |-> c,
                                       items |-> SelectSeqBy(carts[c].items,
                                                             ProductIdsOf(k.order.items))]})
                /\ UNCHANGED hook_log
    /\ UNCHANGED <<cart_calls, orders_response, webhook_response, preview, products, users, carts, orders, stripe_sessions, checkout, clock, requests>>

\* cart.save() writes the cart held by the task
SaveCart(k) ==
    /\ BagIn(k, hooks)
    /\ k.pc = "cart_save"
    /\ carts' = [carts EXCEPT ![k.cart].items = k.items]
    /\ hooks' = Moved(k, {})
    /\ hook_log' = hook_log \cup {<<k.session_id, "done">>}
    /\ UNCHANGED <<cart_calls, orders_response, webhook_response, preview, products, users, orders, stripe_sessions, checkout, clock, requests>>

----------------------------------------------------------------------------
(* Webhook listener and its background tasks *)

ACTIVE == "active"
CONNECT_VERIFICATION_PENDING == "connect_verification_pending"
ProviderStatuses ==
    {"not_started", "onboarding_in_progress", "stripe_activate_subscription_complete",
     CONNECT_VERIFICATION_PENDING, ACTIVE, "rejected"}

\* the request as the listener sees it: no stripe-signature header, a header
\* or payload that construct_event refuses, or a verified event
Signatures == {"missing", "invalid", "valid"}

\* the listener with the presence of the header as its only check
stripe_webhook_listener_HeaderOnly(sig, ev) ==
    /\ requests < MaxRequests
    /\ requests' = requests + 1
    /\ IF sig = "missing"
       THEN /\ webhook_response' = <<[signature |-> sig, status |-> 400, detail |-> "Stripe-Signature header missing",
                                      received_event_type |-> ""]>>
            /\ UNCHANGED hooks
       ELSE /\ webhook_response' = <<[signature |-> sig, status |-> 200, detail |-> "success",
                                      received_event_type |-> ev.type]>>
            /\ hooks' = hooks (+) SetToBag(
                  IF ev.type = "account.updated"
                  THEN {[pc |-> "account", connect_id |-> ev.account,
                         charges_enabled |-> ev.charges_enabled,
                         payouts_enabled |-> ev.payouts_enabled]}
                  ELSE IF ev.type = "checkout.session.completed"
                  THEN {[pc |-> "find", session_id |-> ev.session_id,
                         stripe_account_id |-> ev.account]}
                  ELSE {})
    /\ UNCHANGED <<cart_calls, orders_response, preview, products, users, carts, orders, stripe_sessions, checkout, hook_log, clock>>

\* POST /stripe-webhook.  ev.account is the connected account the event is
\* about (account.updated) or comes from (the stripe-account header).  The
\* response is kept with the kind of signature of its request.
stripe_webhook_listener(sig, ev) ==
    /\ requests < MaxRequests
    /\ requests' = requests + 1
    /\ IF sig = "missing"
       THEN /\ webhook_response' = <<[signature |-> sig, status |-> 400, detail |-> "Stripe-Signature header missing",
                                      received_event_type |-> ""]>>
            /\ UNCHANGED hooks
       ELSE IF sig = "invalid"
       THEN /\ webhook_response' = <<[signature |-> sig, status |-> 400, detail |-> "Invalid webhook signature or payload",
                                      received_event_type |-> ""]>>
            /\ UNCHANGED hooks
       ELSE /\ webhook_response' = <<[signature |-> sig, status |-> 200, detail |-> "success",
                                      received_event_type |-> ev.type]>>
            /\ hooks' = hooks (+) SetToBag(
                  IF ev.type = "account.updated"
                  THEN {[pc |-> "account", connect_id |-> ev.account,
                         charges_enabled |-> ev.charges_enabled,
                         payouts_enabled |-> ev.payouts_enabled]}
                  ELSE IF ev.type = "checkout.session.completed"
                  THEN {[pc |-> "find", session_id |-> ev.session_id,
                         stripe_account_id |-> ev.account]}
                  ELSE {})
    /\ UNCHANGED <<cart_calls, orders_response, preview, products, users, carts, orders, stripe_sessions, checkout, hook_log, clock>>

\* handle_checkout_session_completed up to the end of Order.find_one in
\* handle_checkout_completion
handle_checkout_session_completed(k) ==
    /\ BagIn(k, hooks)
    /\ k.pc = "find"
    /\ LET o == FindOrderBySession(orders, k.session_id)
       IN  IF o = 0
           THEN /\ hooks' = Moved(k, {})
                /\ hook_log' = hook_log \cup {<<k.session_id, "not_found">>}
           ELSE /\ hooks' = Moved(k, {[pc |-> "retrieve", session_id |-> k.session_id,
                                       stripe_account_id |-> k.stripe_account_id,
                                       order |-> orders[o],
                                       duplicate |-> <<k.session_id, "done">> \in hook_log]})
                /\ UNCHANGED hook_log
    /\ UNCHANGED <<cart_calls, orders_response, webhook_response, preview, products, users, carts, orders, stripe_sessions,
                   checkout, clock, requests>>

\* UserManager.get_user_by_stripe_connect_id: the user whose connected
\* account is connect_id, "none" if there is none
get_user_by_stripe_connect_id(us, connect_id) ==
    IF \E u \in DOMAIN us : us[u].stripe_connect_account_id = connect_id
    THEN CHOOSE u \in DOMAIN us : us[u].stripe_connect_account_id = connect_id
    ELSE "none"

\* the status set to ACTIVE whenever charges are enabled
target_status_ChargesOnly(current, charges_enabled, payouts_enabled) ==
    IF charges_enabled
    THEN ACTIVE
    ELSE IF current = ACTIVE THEN CONNECT_VERIFICATION_PENDING ELSE current

\* a seller that is not ACTIVE sent back to the start when a flag is off
target_status_Resets(current, charges_enabled, payouts_enabled) ==
    IF charges_enabled /\ payouts_enabled
    THEN ACTIVE
    ELSE IF current = ACTIVE THEN CONNECT_VERIFICATION_PENDING ELSE "not_started"

\* target_status of handle_connect_account_update
target_status(current, charges_enabled, payouts_enabled) ==
    IF charges_enabled /\ payouts_enabled
    THEN ACTIVE
    ELSE IF current = ACTIVE THEN CONNECT_VERIFICATION_PENDING ELSE current

\* handle_connect_account_update up to the idempotency check
handle_connect_account_update(k) ==
    /\ BagIn(k, hooks)
    /\ k.pc = "account"
    /\ LET u == get_user_by_stripe_connect_id(users, k.connect_id)
       IN  IF u = "none"
           THEN hooks' = Moved(k, {})
           ELSE LET target == target_status(users[u].stripe_provider_status,
                                            k.charges_enabled, k.payouts_enabled)
                IN  IF users[u].stripe_provider_status = target
                    THEN hooks' = Moved(k, {})
                    ELSE hooks' = Moved(k, {[pc |-> "account_save", connect_id |-> k.connect_id,
                                             charges_enabled |-> k.charges_enabled,
                                             payouts_enabled |-> k.payouts_enabled,
                                             user_id |-> u,
                                             user |-> [users[u] EXCEPT
                                                         !.stripe_provider_status = target]]})
    /\ UNCHANGED <<cart_calls, orders_response, webhook_response, preview, products, users, carts, orders, stripe_sessions,
                   checkout, hook_log, clock, requests>>

\* user.save() writes the document held by the task, or raises
SaveUser(k) ==
    /\ BagIn(k, hooks)
    /\ k.pc = "account_save"
    /\ \/ users' = [users EXCEPT ![k.user_id] = k.user]
       \/ UNCHANGED users
    /\ hooks' = Moved(k, {})
    /\ UNCHANGED <<cart_calls, orders_response, webhook_response, preview, products, carts, orders, stripe_sessions,
                   checkout, hook_log, clock, requests>>

----------------------------------------------------------------------------
(* Preview route and product owner *)

RECURSIVE SumGroupTotals(_)
\* sum(group["group_total_price"] for group in groups)
SumGroupTotals(groups) ==
    IF groups = <<>> THEN 0
    ELSE Head(groups).group_total_price + SumGroupTotals(Tail(groups))

\* GET /checkout/cart-preview
get_grouped_cart(u) ==
    /\ BuyerIdle
    /\ requests < MaxRequests
    /\ requests' = requests + 1
    /\ \E up1, up2 \in BOOLEAN :
        LET cs == get_or_create_cart(carts, u)
            groups == get_grouped_cart_for_checkout(cs[FindCart(cs, u)].items, products, users, up1)
        IN  /\ carts' = cs
            /\ preview' = <<[groups |-> groups,
                             total_groups |-> Len(groups),
                             grand_total |-> round2(SumGroupTotals(groups), up2)]>>
    /\ UNCHANGED <<cart_calls, orders_response, webhook_response, products, users, orders, stripe_sessions, checkout, hooks, hook_log, clock>>

\* ProductService.archive_product called by the seller of the product
archive_product(p) ==
    /\ p \in DOMAIN products
    /\ requests < MaxRequests
    /\ requests' = requests + 1
    /\ products' = [products EXCEPT ![p].status = "archived"]
    /\ UNCHANGED <<cart_calls, orders_response, webhook_response, preview, users, carts, orders, stripe_sessions, checkout, hooks, hook_log, clock>>

----------------------------------------------------------------------------
Init ==
    /\ products = Catalogue
    /\ \E acctB \in {"acct_B", NoAccount} :      \* seller B onboarded, or reset by an admin
          users = [s \in Sellers |->
                     [stripe_connect_account_id |-> IF s = "sellerA" THEN "acct_A" ELSE acctB]]
    /\ carts \in {<<>>,                         \* no cart yet, or one line from an earlier visit
                 <<[user_id |-> Buyer, items |-> <<[product_id |-> "p1", quantity |-> 1]>>]>>}
    /\ orders = <<>>
    /\ stripe_sessions = <<>>
    /\ checkout = [t \in 1..MaxRequests |-> [pc |-> "idle"]]
    /\ hooks = EmptyBag
    /\ hook_log = {}
    /\ clock = 1
    /\ requests = 0
    /\ preview = <<>>
    /\ webhook_response = <<>>
    /\ orders_response = <<>>
    /\ cart_calls = <<>>

Next ==
    \/ \E p \in ProductIds, q \in 1..MaxQty : add_item(Buyer, p, q)
    \/ \E p \in ProductIds : remove_item(Buyer, p)
    \/ \E p \in ProductIds, q \in (-1)..MaxQty : update_item_quantity(Buyer, p, q)
    \/ clear_cart(Buyer)
    \/ \E t \in 1..MaxRequests : StartCheckout(t)
    \/ \E t \in 1..MaxRequests : InsertOrder(t)
    \/ \E t \in 1..MaxRequests : RequestSession(t)
    \/ \E t \in 1..MaxRequests : SaveOrder(t)
    \/ \E sid \in DOMAIN stripe_sessions : FindOrder(sid)
    \/ \E k \in BagToSet(hooks) : CompleteOrder(k)
    \/ \E k \in BagToSet(hooks) : ReadCart(k)
    \/ \E k \in BagToSet(hooks) : SaveCart(k)

Spec == Init /\ [][Next]_vars

----------------------------------------------------------------------------
(* The grouper and the orchestrator over the catalogues, sellers and carts *)
(* they can meet, with the seller archiving products in between            *)

MaxLines == 3             \* lines of the cart at start
MaxCatalogRequests == 3   \* previews, archive requests and create-sessions requests served

\* what the sellers and the admin can have made of the catalogue: product p2
\* deleted, stored without Stripe price (Product.stripe_price_id defaults to
\* None), or changed into a recurring product
Catalogues ==
    {Catalogue,
     [p \in ProductIds \ {"p2"} |-> Catalogue[p]],
     [Catalogue EXCEPT !["p2"].stripe_price_id = "none"],
     [Catalogue EXCEPT !["p2"].is_recurring = TRUE]}

\* seller B onboarded, without connected account, or no longer a user
SellerStores ==
    {[s \in Sellers |-> [stripe_connect_account_id |-> IF s = "sellerA" THEN "acct_A" ELSE "acct_B"]],
     [s \in Sellers |-> [stripe_connect_account_id |-> IF s = "sellerA" THEN "acct_A" ELSE NoAccount]],
     [s \in {"sellerA"} |-> [stripe_connect_account_id |-> "acct_A"]]}

\* the item lists the cart operations build: at most one line per product,
\* here each at the largest quantity
CartItemLists ==
    {items \in UNION {[1..n -> [product_id : ProductIds, quantity : {MaxQty}]] : n \in 0..MaxLines} :
        \A i, j \in DOMAIN items : items[i].product_id = items[j].product_id => i = j}

InitCatalog ==
    /\ products \in Catalogues
    /\ users \in SellerStores
    /\ carts \in {<<>>} \cup {<<[user_id |-> Buyer, items |-> items]>> : items \in CartItemLists}
    /\ orders = <<>>
    /\ stripe_sessions = <<>>
    /\ checkout = [t \in 1..MaxRequests |-> [pc |-> "idle"]]
    /\ hooks = EmptyBag
    /\ hook_log = {}
    /\ clock = 1
    /\ requests = 0
    /\ preview = <<>>
    /\ webhook_response = <<>>
    /\ orders_response = <<>>
    /\ cart_calls = <<>>

NextCatalog ==
    \/ requests < MaxCatalogRequests /\ get_grouped_cart(Buyer)
    \/ requests < MaxCatalogRequests /\ \E p \in ProductIds : archive_product(p)
    \/ requests < MaxCatalogRequests /\ \E t \in 1..MaxRequests : StartCheckout(t)
    \/ \E t \in 1..MaxRequests : InsertOrder(t)
    \/ \E t \in 1..MaxRequests : RequestSession(t)
    \/ \E t \in 1..MaxRequests : SaveOrder(t)

SpecCatalog == InitCatalog /\ [][NextCatalog]_vars

----------------------------------------------------------------------------
(* The orchestrator over the prices a seller can give a one-time product *)

MaxPriceDimes == 29       \* prices of product p2, in tenths of the currency unit

\* the catalogue after the seller of p2 has updated its price
PricedCatalogues ==
    {[Catalogue EXCEPT !["p2"].price = d * 10 * MinorUnit] : d \in 1..MaxPriceDimes}

InitPricing ==
    /\ products \in PricedCatalogues
    /\ users = [s \in Sellers |->
                  [stripe_connect_account_id |-> IF s = "sellerA" THEN "acct_A" ELSE "acct_B"]]
    /\ \E q \in 1..MaxQty :
          carts = <<[user_id |-> Buyer, items |-> <<[product_id |-> "p2", quantity |-> q]>>]>>
    /\ orders = <<>>
    /\ stripe_sessions = <<>>
    /\ checkout = [t \in 1..MaxRequests |-> [pc |-> "idle"]]
    /\ hooks = EmptyBag
    /\ hook_log = {}
    /\ clock = 1
    /\ requests = 0
    /\ preview = <<>>
    /\ webhook_response = <<>>
    /\ orders_response = <<>>
    /\ cart_calls = <<>>

SpecPricing == InitPricing /\ [][NextCatalog]_vars

----------------------------------------------------------------------------
(* The webhook listener after a checkout of two groups *)

\* account.updated of seller B's account with every combination of the two
\* flags and of an account no user has, checkout.session.completed of the
\* sessions created, and two event types without background task
Events ==
    {[type |-> "account.updated", session_id |-> NoSession, account |-> "acct_B",
      charges_enabled |-> c, payouts_enabled |-> p] : c, p \in BOOLEAN}
    \cup {[type |-> "account.updated", session_id |-> NoSession, account |-> "acct_X",
           charges_enabled |-> TRUE, payouts_enabled |-> TRUE]}
    \cup {[type |-> "checkout.session.completed", session_id |-> sid,
           account |-> stripe_sessions[sid].stripe_account,
           charges_enabled |-> FALSE, payouts_enabled |-> FALSE] : sid \in DOMAIN stripe_sessions}
    \cup {[type |-> t, session_id |-> NoSession, account |-> NoAccount,
           charges_enabled |-> FALSE, payouts_enabled |-> FALSE] :
              t \in {"payment_intent.succeeded", "invoice.paid"}}

\* the cart [p1 x 1, p3 x 1] has been checked out: an Order and a session for
\* each of the two groups; the write of the session identifier of the second
\* Order has succeeded or failed
InitWebhook ==
    /\ products = Catalogue
    /\ \E st \in ProviderStatuses :
          users = [s \in Sellers |->
                     IF s = "sellerA"
                     THEN [stripe_connect_account_id |-> "acct_A", stripe_provider_status |-> ACTIVE]
                     ELSE [stripe_connect_account_id |-> "acct_B", stripe_provider_status |-> st]]
    /\ carts = <<[user_id |-> Buyer, items |-> <<[product_id |-> "p1", quantity |-> 1],
                                                 [product_id |-> "p3", quantity |-> 1]>>]>>
    /\ \E saved \in BOOLEAN :
          LET groups == get_grouped_cart_for_checkout(carts[1].items, products, users, TRUE)
              account(g) == users[groups[g].seller_id].stripe_connect_account_id
              order(g) == NewOrder(g, Buyer, groups[g], account(g),
                                   calculate_platform_fee(SumLines(groups[g].items), TRUE, TRUE), 1)
          IN  /\ orders = [g \in 1..2 |->
                    [order(g) EXCEPT !.stripe_checkout_session_id =
                                        IF g = 1 \/ saved THEN g ELSE NoSession]]
              /\ stripe_sessions = [g \in 1..2 |-> [id |-> g] @@ SessionParams(order(g), groups[g])]
    /\ checkout = [t \in 1..MaxRequests |-> [pc |-> IF t = 1 THEN "returned" ELSE "idle"]]
    /\ hooks = EmptyBag
    /\ hook_log = {}
    /\ clock = 2
    /\ requests = 1
    /\ preview = <<>>
    /\ webhook_response = <<>>
    /\ orders_response = <<>>
    /\ cart_calls = <<>>

NextWebhook ==
    \/ \E sig \in Signatures, ev \in Events : stripe_webhook_listener(sig, ev)
    \/ \E k \in BagToSet(hooks) : handle_checkout_session_completed(k)
    \/ \E k \in BagToSet(hooks) : CompleteOrder(k)
    \/ \E k \in BagToSet(hooks) : ReadCart(k)
    \/ \E k \in BagToSet(hooks) : SaveCart(k)
    \/ \E k \in BagToSet(hooks) : handle_connect_account_update(k)
    \/ \E k \in BagToSet(hooks) : SaveUser(k)

SpecWebhook == InitWebhook /\ [][NextWebhook]_vars

----------------------------------------------------------------------------
(* The three writers of a seller's provider status *)

\* POST /user/onboarding/check-connect-status of seller u, with the flags of
\* the account as stripe.Account.retrieve returns them
check_connect_status(u, charges_enabled, payouts_enabled, details_submitted) ==
    /\ requests < MaxRequests
    /\ requests' = requests + 1
    /\ users[u].stripe_connect_account_id /= NoAccount
    /\ LET user == IF charges_enabled /\ payouts_enabled
                   THEN IF users[u].stripe_provider_status /= ACTIVE
                        THEN [users[u] EXCEPT !.stripe_provider_status = ACTIVE,
                                              !.stripe_activate_connect_complete = TRUE]
                        ELSE users[u]
                   ELSE IF details_submitted
                           /\ users[u].stripe_provider_status /= CONNECT_VERIFICATION_PENDING
                        THEN [users[u] EXCEPT !.stripe_provider_status = CONNECT_VERIFICATION_PENDING]
                        ELSE users[u]
       IN  \/ users' = [users EXCEPT ![u] = user]
           \/ UNCHANGED users                  \* user.save() raises
    /\ UNCHANGED <<products, carts, orders, stripe_sessions, checkout, hooks, hook_log, clock,
                   preview, webhook_response, orders_response, cart_calls>>

\* POST /user/onboarding/resume-stripe-connect of seller u (the embedded
\* variant of the route writes the same)
resume_stripe_connect_onboarding(u, charges_enabled, payouts_enabled) ==
    /\ requests < MaxRequests
    /\ requests' = requests + 1
    /\ users[u].stripe_connect_account_id /= NoAccount
    /\ users[u].stripe_provider_status = CONNECT_VERIFICATION_PENDING
    /\ IF charges_enabled /\ payouts_enabled
       THEN \/ users' = [users EXCEPT ![u].stripe_provider_status = ACTIVE]
            \/ UNCHANGED users                 \* user.save() raises
       ELSE UNCHANGED users                    \* a new onboarding link is returned
    /\ UNCHANGED <<products, carts, orders, stripe_sessions, checkout, hooks, hook_log, clock,
                   preview, webhook_response, orders_response, cart_calls>>

\* seller A is active with its flag set; seller B is anywhere in the
\* onboarding flow, with the flag set when it is active
InitOnboarding ==
    /\ products = Catalogue
    /\ \E st \in ProviderStatuses, flag \in BOOLEAN :
          /\ st = ACTIVE => flag
          /\ users = [s \in Sellers |->
                        IF s = "sellerA"
                        THEN [stripe_connect_account_id |-> "acct_A", stripe_provider_status |-> ACTIVE,
                              stripe_activate_connect_complete |-> TRUE]
                        ELSE [stripe_connect_account_id |-> "acct_B", stripe_provider_status |-> st,
                              stripe_activate_connect_complete |-> flag]]
    /\ carts = <<>>
    /\ orders = <<>>
    /\ stripe_sessions = <<>>
    /\ checkout = [t \in 1..MaxRequests |-> [pc |-> "idle"]]
    /\ hooks = EmptyBag
    /\ hook_log = {}
    /\ clock = 1
    /\ requests = 0
    /\ preview = <<>>
    /\ webhook_response = <<>>
    /\ orders_response = <<>>
    /\ cart_calls = <<>>

NextOnboarding ==
    \/ \E sig \in Signatures, ev \in Events : stripe_webhook_listener(sig, ev)
    \/ \E k \in BagToSet(hooks) : handle_connect_account_update(k)
    \/ \E k \in BagToSet(hooks) : SaveUser(k)
    \/ \E c, p, d \in BOOLEAN : check_connect_status("sellerB", c, p, d)
    \/ \E c, p \in BOOLEAN : resume_stripe_connect_onboarding("sellerB", c, p)

SpecOnboarding == InitOnboarding /\ [][NextOnboarding]_vars

----------------------------------------------------------------------------
(* The order routes over the Orders two buyers can have *)

MaxOrders == 3            \* Orders in the store

OtherBuyer == "buyer2"

\* the users who send requests to the order routes
Buyers == {Buyer, OtherBuyer}

\* Order.get(order_id): the stored Order, none as the empty sequence
get_order_by_id(os, order_id) ==
    IF order_id \in DOMAIN os THEN <<os[order_id]>> ELSE <<>>

\* os without its element at position i
RemoveAt(os, i) == [j \in 1..(Len(os) - 1) |-> IF j < i THEN os[j] ELSE os[j + 1]]

RECURSIVE SortByCreatedDesc(_)
\* .sort(-Order.created_at)
SortByCreatedDesc(os) ==
    IF os = <<>> THEN <<>>
    ELSE LET m == CHOOSE i \in DOMAIN os :
                      \A j \in DOMAIN os :
                          \/ os[j].created_at < os[i].created_at
                          \/ os[j].created_at = os[i].created_at /\ i <= j
         IN  <<os[m]>> \o SortByCreatedDesc(RemoveAt(os, m))

\* CheckOutService.get_user_orders
get_user_orders(os, user_id, limit, skip) ==
    LET sorted == SortByCreatedDesc(SelectSeq(os, LAMBDA o : o.user_id = user_id))
        last == IF skip + limit < Len(sorted) THEN skip + limit ELSE Len(sorted)
    IN  SubSeq(sorted, skip + 1, last)

\* GET /orders
get_user_orders_route(u, limit, skip) ==
    /\ orders_response' = <<[route |-> "get_user_orders", user |-> u, order_id |-> 0,
                             status |-> 200, body |-> get_user_orders(orders, u, limit, skip)]>>
    /\ UNCHANGED <<products, users, carts, orders, stripe_sessions, checkout, hooks, hook_log,
                   clock, requests, preview, webhook_response, cart_calls>>

\* GET /orders/{order_id} that leaves the check of the owner out
get_order_NoOwnerCheck(u, order_id) ==
    /\ LET order == get_order_by_id(orders, order_id)
       IN  orders_response' =
             <<[route |-> "get_order", user |-> u, order_id |-> order_id,
                status |-> IF order = <<>> THEN 404 ELSE 200,
                body |-> order]>>
    /\ UNCHANGED <<products, users, carts, orders, stripe_sessions, checkout, hooks, hook_log,
                   clock, requests, preview, webhook_response, cart_calls>>

\* GET /orders/{order_id}
get_order(u, order_id) ==
    /\ LET order == get_order_by_id(orders, order_id)
       IN  orders_response' =
             <<[route |-> "get_order", user |-> u, order_id |-> order_id,
                status |-> IF order = <<>> THEN 404
                           ELSE IF order[1].user_id /= u THEN 403
                           ELSE 200,
                body |-> IF order /= <<>> /\ order[1].user_id = u THEN order ELSE <<>>]>>
    /\ UNCHANGED <<products, users, carts, orders, stripe_sessions, checkout, hooks, hook_log,
                   clock, requests, preview, webhook_response, cart_calls>>

\* the stores of up to MaxOrders Orders of product p1, each of one of the buyers
OrderStores ==
    LET us == [s \in Sellers |-> [stripe_connect_account_id |-> "acct_A"]]
        group == get_grouped_cart_for_checkout(<<[product_id |-> "p1", quantity |-> 1]>>,
                                               Catalogue, us, TRUE)[1]
        fee == calculate_platform_fee(SumLines(group.items), TRUE, TRUE)
    IN  UNION {{[i \in 1..n |-> NewOrder(i, owner[i], group, "acct_A", fee, i)] :
                    owner \in [1..n -> Buyers]} : n \in 0..MaxOrders}

InitOrders ==
    /\ products = Catalogue
    /\ users = [s \in Sellers |->
                  [stripe_connect_account_id |-> IF s = "sellerA" THEN "acct_A" ELSE "acct_B"]]
    /\ carts = <<>>
    /\ orders \in OrderStores
    /\ stripe_sessions = <<>>
    /\ checkout = [t \in 1..MaxRequests |-> [pc |-> "idle"]]
    /\ hooks = EmptyBag
    /\ hook_log = {}
    /\ clock = 1
    /\ requests = 0
    /\ preview = <<>>
    /\ webhook_response = <<>>
    /\ orders_response = <<>>
    /\ cart_calls = <<>>

NextOrders ==
    \/ \E u \in Buyers, order_id \in 1..(MaxOrders + 1) : get_order(u, order_id)
    \/ \E u \in Buyers, limit \in {1, 50}, skip \in 0..1 : get_user_orders_route(u, limit, skip)

SpecOrders == InitOrders /\ [][NextOrders]_vars

----------------------------------------------------------------------------
(* Cart requests of one user served at the same time *)

MaxCartCalls == 2         \* cart requests of the buyer in flight together

\* the requests that start with get_or_create_cart: a first add_item, the
\* cart read and the checkout preview
CartCalls ==
    {[name |-> "add_item", product_id |-> p] : p \in ProductIds}
    \cup {[name |-> n, product_id |-> "none"] : n \in {"get_cart_with_products", "get_grouped_cart"}}

\* get_or_create_cart: cart = await Cart.find_one(Cart.user_id == user_id)
FindOne(u, call) ==
    /\ Len(cart_calls) < MaxCartCalls
    /\ call.name = "add_item" => products[call.product_id].status = "published"
    /\ LET c == FindCart(carts, u)
       IN  cart_calls' = Append(cart_calls,
              IF c = 0
              THEN [pc |-> "insert", call |-> call, user_id |-> u, cart |-> 0, items |-> <<>>]
              ELSE [pc |-> "found", call |-> call, user_id |-> u, cart |-> c, items |-> carts[c].items])
    /\ UNCHANGED <<products, users, carts, orders, stripe_sessions, checkout, hooks, hook_log,
                   clock, requests, preview, webhook_response, orders_response>>

\* get_or_create_cart: cart = Cart(user_id=user_id, items=[]); await cart.insert()
InsertCart(t) ==
    /\ t \in DOMAIN cart_calls
    /\ cart_calls[t].pc = "insert"
    /\ carts' = Append(carts, [user_id |-> cart_calls[t].user_id, items |-> <<>>])
    /\ cart_calls' = [cart_calls EXCEPT ![t].pc = "found", ![t].cart = Len(carts) + 1]
    /\ UNCHANGED <<products, users, orders, stripe_sessions, checkout, hooks, hook_log,
                   clock, requests, preview, webhook_response, orders_response>>

\* the rest of the request on the cart it holds: add_item changes the items
\* and saves the document, the two reads write nothing
FinishCartCall(t) ==
    /\ t \in DOMAIN cart_calls
    /\ cart_calls[t].pc = "found"
    /\ LET k == cart_calls[t]
           i == IndexOfProduct(k.items, k.call.product_id)
           items == IF i = 0
                    THEN Append(k.items, [product_id |-> k.call.product_id, quantity |-> 1])
                    ELSE [k.items EXCEPT ![i].quantity = @ + 1]
       IN  IF k.call.name = "add_item"
           THEN /\ \A j \in DOMAIN items : items[j].quantity <= MaxQty
                /\ carts' = [carts EXCEPT ![k.cart].items = items]
                /\ cart_calls' = [cart_calls EXCEPT ![t].pc = "done", ![t].items = items]
           ELSE /\ carts' = carts
                /\ cart_calls' = [cart_calls EXCEPT ![t].pc = "done"]
    /\ UNCHANGED <<products, users, orders, stripe_sessions, checkout, hooks, hook_log,
                   clock, requests, preview, webhook_response, orders_response>>

InitCartCalls ==
    /\ products = Catalogue
    /\ users = [s \in Sellers |->
                  [stripe_connect_account_id |-> IF s = "sellerA" THEN "acct_A" ELSE "acct_B"]]
    /\ carts \in {<<>>,
                 <<[user_id |-> Buyer, items |-> <<[product_id |-> "p1", quantity |-> 1]>>]>>}
    /\ orders = <<>>
    /\ stripe_sessions = <<>>
    /\ checkout = [t \in 1..MaxRequests |-> [pc |-> "idle"]]
    /\ hooks = EmptyBag
    /\ hook_log = {}
    /\ clock = 1
    /\ requests = 0
    /\ preview = <<>>
    /\ webhook_response = <<>>
    /\ orders_response = <<>>
    /\ cart_calls = <<>>

NextCartCalls ==
    \/ \E call \in CartCalls : FindOne(Buyer, call)
    \/ \E t \in 1..MaxCartCalls : InsertCart(t)
    \/ \E t \in 1..MaxCartCalls : FinishCartCall(t)

SpecCartCalls == InitCartCalls /\ [][NextCartCalls]_vars

----------------------------------------------------------------------------
(* Properties *)

Abs(x) == IF x < 0 THEN -x ELSE x

\* k reconciles an event of a session after a reconciliation of that session
\* has ended
SecondReconciliation(k) == k.duplicate

\* C1: when handle_checkout_completion runs again for a session whose Order
\* is already COMPLETED, no field of that Order changes: status,
\* completed_at, updated_at and payment intent stay as the first run wrote them.
\* The run is one that found the Order COMPLETED when it read it.
C1_SecondInvocationChangesNothing ==
    [][\A k \in BagToSet(hooks) :
          (k.pc = "retrieve" /\ k.order.status = COMPLETED
             /\ CopiesIn(k, hooks') < CopiesIn(k, hooks))
          => orders'[k.order.id] = orders[k.order.id]]_vars

\* C2: every provider session carries in its metadata the id of an Order that
\* is in the store and is routed to that Order's connected account, and while
\* a request is between order.insert() and the end of order.save() its Order
\* is in the store, PENDING and without session identifier.
C2_NoSessionWithoutOrder ==
    /\ \A sid \in DOMAIN stripe_sessions :
          /\ stripe_sessions[sid].metadata_order_id \in DOMAIN orders
          /\ orders[stripe_sessions[sid].metadata_order_id].id = stripe_sessions[sid].metadata_order_id
          /\ orders[stripe_sessions[sid].metadata_order_id].stripe_account_id
                = stripe_sessions[sid].stripe_account
    /\ \A t \in DOMAIN checkout :
          checkout[t].pc \in {"request", "save"} =>
              /\ checkout[t].order.id \in DOMAIN orders
              /\ orders[checkout[t].order.id].status = PENDING
              /\ orders[checkout[t].order.id].stripe_checkout_session_id = NoSession

\* the write-back of the session identifier failed: the provider has a
\* session whose Order is in the store without session identifier
C2_Witness ==
    \E t \in DOMAIN checkout, sid \in DOMAIN stripe_sessions :
        /\ checkout[t].pc = "failed"
        /\ checkout[t].detail = "Checkout error"
        /\ stripe_sessions[sid].metadata_order_id \in DOMAIN orders
        /\ orders[stripe_sessions[sid].metadata_order_id].stripe_checkout_session_id = NoSession

\* C3: the reconciliation of a checkout.session.completed event of a session
\* the provider has created never ends in order-not-found.
C3_NeverOrderNotFound ==
    \A sid \in DOMAIN stripe_sessions : <<sid, "not_found">> \notin hook_log

\* the request ended because the provider refused the session of a recurring
\* group B, and the cart had grouped into B and a one-time group A
ProviderFailedForB(t) ==
    /\ checkout[t].pc = "failed"
    /\ checkout[t].detail = "Stripe error"
    /\ Len(checkout[t].groups) = 2
    /\ checkout[t].groups[checkout[t].idx].is_recurring
    /\ \E a \in 1..2 : ~checkout[t].groups[a].is_recurring

\* the j-th Order of request t is in the store for group a of that request and
\* stores a session of the provider that refers back to it
OrderAndSessionExist(t, j, a) ==
    LET c == checkout[t] IN
    /\ j \in DOMAIN c.order_ids
    /\ c.order_ids[j] \in DOMAIN orders
    /\ orders[c.order_ids[j]].seller_id = c.groups[a].seller_id
    /\ orders[c.order_ids[j]].is_recurring = c.groups[a].is_recurring
    /\ orders[c.order_ids[j]].stripe_checkout_session_id \in DOMAIN stripe_sessions
    /\ stripe_sessions[orders[c.order_ids[j]].stripe_checkout_session_id].metadata_order_id
          = c.order_ids[j]

\* C4 as stated: whichever group came first, after the provider refused B's
\* session an Order and a provider session of group A exist.
C4_Original ==
    \A t \in DOMAIN checkout :
        ProviderFailedForB(t) =>
            \E a \in 1..2, j \in 1..2 :
                ~checkout[t].groups[a].is_recurring /\ OrderAndSessionExist(t, j, a)

\* C4 amended: when the grouper returned A before B, after the provider
\* refused B's session the Order of A exists and stores A's provider session.
C4_EarlierGroupSurvives ==
    \A t \in DOMAIN checkout :
        (ProviderFailedForB(t) /\ checkout[t].idx = 2) => OrderAndSessionExist(t, 1, 1)

C4_Witness ==
    \E t \in DOMAIN checkout :
        /\ ProviderFailedForB(t)
        /\ checkout[t].idx = 2
        /\ ~checkout[t].groups[1].is_recurring

\* the provider call failed for the group request t was processing
ProviderFailed(t) ==
    /\ checkout[t].pc = "failed"
    /\ checkout[t].detail = "Stripe error"

\* C5: after the provider call failed for group idx, the caller has an error
\* and no session list, the request has inserted exactly idx Orders, the last
\* of them is PENDING without session identifier, each earlier one still
\* stores its own provider session, and the failing step itself changes no
\* Order and no provider session.
C5_PartialFailure ==
    /\ [](\A t \in DOMAIN checkout :
            ProviderFailed(t) =>
                LET c == checkout[t] IN
                /\ c.result = 400
                /\ Len(c.order_ids) = c.idx
                /\ \A j \in DOMAIN c.order_ids : c.order_ids[j] \in DOMAIN orders
                /\ orders[c.order_ids[c.idx]].status = PENDING
                /\ orders[c.order_ids[c.idx]].stripe_checkout_session_id = NoSession
                /\ \A j \in 1..(c.idx - 1) : OrderAndSessionExist(t, j, j))
    /\ [][\A t \in DOMAIN checkout :
            (checkout[t].pc = "request" /\ checkout'[t].pc = "failed") =>
                (orders' = orders /\ stripe_sessions' = stripe_sessions)]_vars
    /\ [][\A t \in DOMAIN checkout :
            checkout[t].pc = "failed" =>
                (checkout'[t].pc \in {"failed", "returned"} /\ Len(orders') = Len(orders))]_vars

\* the provider refused the second group of a request: one Order with its
\* session, one PENDING Order without
C5_Witness ==
    \E t \in DOMAIN checkout :
        /\ ProviderFailed(t)
        /\ checkout[t].idx = 2
        /\ Len(orders) = 2
        /\ Len(stripe_sessions) = 1

RECURSIVE CatalogueTotal(_)
\* sum of price x quantity over the lines of an item snapshot
CatalogueTotal(items) ==
    IF items = <<>> THEN 0
    ELSE Catalogue[Head(items).product_id].price * Head(items).quantity
           + CatalogueTotal(Tail(items))

\* the lines of a group as <<product, quantity>> pairs
LinesOf(group) ==
    [i \in DOMAIN group.items |->
        [product_id |-> group.items[i].product_id, quantity |-> group.items[i].quantity]]

\* request t ended with the session list
Succeeded(t) == checkout[t].pc = "done"

\* what C6 says of the Orders of a successful request, but for the fee
OrdersMatchGroups(t) ==
    LET c == checkout[t] IN
    /\ c.result = 200
    /\ Len(c.order_ids) = Len(c.groups)
    /\ \A i, j \in DOMAIN c.groups :
          (c.groups[i].seller_id = c.groups[j].seller_id
             /\ c.groups[i].is_recurring = c.groups[j].is_recurring) => i = j
    /\ \A i, j \in DOMAIN c.order_ids : c.order_ids[i] = c.order_ids[j] => i = j
    /\ \A j \in DOMAIN c.order_ids :
          /\ OrderAndSessionExist(t, j, j)
          /\ orders[c.order_ids[j]].user_id = Buyer
          /\ orders[c.order_ids[j]].items = LinesOf(c.groups[j])
          /\ orders[c.order_ids[j]].total_amount = CatalogueTotal(orders[c.order_ids[j]].items)
          /\ stripe_sessions[orders[c.order_ids[j]].stripe_checkout_session_id].mode
                = IF c.groups[j].is_recurring THEN "subscription" ELSE "payment"
    /\ Cardinality({sid \in DOMAIN stripe_sessions :
                       \E j \in DOMAIN c.order_ids :
                           stripe_sessions[sid].metadata_order_id = c.order_ids[j]})
          = Len(c.groups)

\* every Order enters the store PENDING
InsertedPending ==
    \A i \in DOMAIN orders' : i \notin DOMAIN orders => orders'[i].status = PENDING

\* C6 as stated: the platform fee of each Order of a successful request is
\* 10% of its total_amount.
C6_Original ==
    /\ [](\A t \in DOMAIN checkout :
            Succeeded(t) =>
                /\ OrdersMatchGroups(t)
                /\ \A j \in DOMAIN checkout[t].order_ids :
                      100 * orders[checkout[t].order_ids[j]].platform_fee_amount
                        = PLATFORM_FEE_PERCENT * orders[checkout[t].order_ids[j]].total_amount)
    /\ [][InsertedPending]_vars

\* C6 amended: a successful request over n groups has inserted n Orders, each
\* PENDING when inserted, and created n provider sessions, one per (seller,
\* is_recurring) group; each Order has the lines and the recurring flag of its
\* group, total_amount equal to the sum of price x quantity, a platform fee
\* equal to 10% of the total rounded to the cent, a seller amount equal to the
\* total minus the fee rounded to the cent, and stores the session created
\* for its own group.
C6_OrdersOfSuccessfulRequest ==
    /\ [](\A t \in DOMAIN checkout :
            Succeeded(t) =>
                /\ OrdersMatchGroups(t)
                /\ \A j \in DOMAIN checkout[t].order_ids :
                      LET o == orders[checkout[t].order_ids[j]] IN
                      /\ o.platform_fee_amount % MinorUnit = 0
                      /\ o.seller_amount % MinorUnit = 0
                      /\ 2 * Abs(100 * o.platform_fee_amount
                                   - PLATFORM_FEE_PERCENT * o.total_amount) <= 100 * MinorUnit
                      /\ 2 * Abs(o.seller_amount - (o.total_amount - o.platform_fee_amount))
                            <= MinorUnit)
    /\ [][InsertedPending]_vars

\* the example: 50.00 x 1 and 30.00 x 2 of one seller give one Order of
\* 110.00 with fee 11.00 and seller amount 99.00, not recurring
C6_Witness ==
    \E t \in DOMAIN checkout :
        /\ Succeeded(t)
        /\ Len(checkout[t].order_ids) = 1
        /\ LET o == orders[checkout[t].order_ids[1]] IN
           /\ o.items = <<[product_id |-> "p1", quantity |-> 1], [product_id |-> "p2", quantity |-> 2]>>
           /\ o.total_amount = 110000
           /\ o.platform_fee_amount = 11000
           /\ o.seller_amount = 99000
           /\ o.is_recurring = FALSE

MaxGross == 250      \* gross amounts, in mills, the fee calculator is tried on

\* calculate_platform_fee on every gross amount up to MaxGross
FeeLaw ==
    \A amount \in 0..MaxGross, up1, up2 \in BOOLEAN :
        LET fee == calculate_platform_fee(amount, up1, up2) IN
        /\ fee[1] >= 0
        /\ fee[2] >= 0
        /\ Abs(fee[1] + fee[2] - amount) <= MinorUnit

\* C7: every Order in the store has platform_fee_amount >= 0, seller_amount
\* >= 0 and seller_amount + platform_fee_amount within one cent of
\* total_amount; calculate_platform_fee returns such a pair for every gross
\* amount >= 0 (a law of the function, evaluated in the initial states).
C7_FeeArithmetic ==
    /\ \A i \in DOMAIN orders :
          /\ orders[i].platform_fee_amount >= 0
          /\ orders[i].seller_amount >= 0
          /\ Abs(orders[i].seller_amount + orders[i].platform_fee_amount
                   - orders[i].total_amount) <= MinorUnit
    /\ (orders = <<>> /\ requests = 0) => FeeLaw

\* an Order whose two amounts do not add up to its total, after reconciliation
C7_Witness ==
    \E i \in DOMAIN orders :
        /\ orders[i].status = COMPLETED
        /\ orders[i].seller_amount + orders[i].platform_fee_amount /= orders[i].total_amount

\* C8: an Order is PENDING or COMPLETED, and PENDING only without payment
\* intent and completed_at; it enters the store PENDING, never leaves
\* COMPLETED, and its status changes only in the save of
\* handle_checkout_completion.
C8_StatusMachine ==
    /\ [](\A i \in DOMAIN orders :
            /\ orders[i].status \in {PENDING, COMPLETED}
            /\ orders[i].status = PENDING =>
                  (orders[i].stripe_payment_intent_id = NoIntent /\ orders[i].completed_at = NoTime))
    /\ [][/\ InsertedPending
          /\ \A i \in DOMAIN orders :
                /\ i \in DOMAIN orders'
                /\ orders[i].status = COMPLETED => orders'[i].status = COMPLETED
                /\ orders'[i].status /= orders[i].status =>
                      \E k \in BagToSet(hooks) :
                          /\ k.pc = "retrieve"
                          /\ k.order.id = i
                          /\ CopiesIn(k, hooks') < CopiesIn(k, hooks)]_vars

\* one Order of a request reconciled, the other still PENDING
C8_Witness ==
    \E i, j \in DOMAIN orders :
        /\ orders[i].status = COMPLETED
        /\ orders[i].completed_at /= NoTime
        /\ orders[j].status = PENDING

\* C9: no two Orders store the same session identifier, and a session
\* identifier stored on an Order stays on it unchanged.
C9_OneOrderPerSession ==
    /\ [](\A i, j \in DOMAIN orders :
            (orders[i].stripe_checkout_session_id /= NoSession
               /\ orders[i].stripe_checkout_session_id = orders[j].stripe_checkout_session_id)
            => i = j)
    /\ [][\A i \in DOMAIN orders :
            orders[i].stripe_checkout_session_id /= NoSession =>
                orders'[i].stripe_checkout_session_id = orders[i].stripe_checkout_session_id]_vars

\* two Orders with their own sessions, one of them rewritten by a reconciliation
C9_Witness ==
    \E i, j \in DOMAIN orders :
        /\ i /= j
        /\ orders[i].stripe_checkout_session_id /= NoSession
        /\ orders[j].stripe_checkout_session_id /= NoSession
        /\ orders[i].status = COMPLETED

\* C10: the cart.save() of a second reconciliation of a session leaves every
\* cart as it is.
C10_SecondReconciliationKeepsCart ==
    [][\A k \in BagToSet(hooks) :
          (k.pc = "cart_save" /\ SecondReconciliation(k) /\ hooks' = Moved(k, {}))
          => carts' = carts]_vars

\* before, without the lines of the products in ids: the same lines, none twice
IsFiltered(before, after, ids) ==
    /\ ProductIdsOf(after) = ProductIdsOf(before) \ ids
    /\ Len(after) = Cardinality(ProductIdsOf(after))
    /\ \A i \in DOMAIN after : \E j \in DOMAIN before : before[j] = after[i]

Grouped(t) == checkout[t].pc = "idle" /\ checkout'[t].pc \in {"validate", "failed"}

\* the buyer's cart lines as the grouping request read them
CartLines == carts'[FindCart(carts', Buyer)].items

\* the positions <<group, line>> at which the groups hold a line for product p
PlacesOf(groups, p) ==
    {<<g, i>> \in (DOMAIN groups) \X (1..MaxLines) :
        i \in DOMAIN groups[g].items /\ groups[g].items[i].product_id = p}

\* the lines of a group are of the group's seller and payment type, and no two
\* groups have the same seller and payment type
GroupsPartition(groups) ==
    /\ \A g \in DOMAIN groups : \A i \in DOMAIN groups[g].items :
          /\ groups[g].items[i].product.seller_id = groups[g].seller_id
          /\ groups[g].items[i].product.is_recurring = groups[g].is_recurring
    /\ \A g, h \in DOMAIN groups :
          (groups[g].seller_id = groups[h].seller_id
           /\ groups[g].is_recurring = groups[h].is_recurring) => g = h
    /\ \A p \in ProductIds : Cardinality(PlacesOf(groups, p)) <= 1

\* C12: the groups a request or a preview holds partition the lines they
\* contain by seller and payment type: every line of a group has the group's
\* seller_id and is_recurring, no two groups share that pair, no line is in
\* two groups; and when a request groups the cart, every line of a group is a
\* line of the cart and every cart line of a published product of a seller
\* with a connected account is in exactly one group.
C12_GroupsPartitionLines ==
    /\ [](/\ \A t \in DOMAIN checkout :
              checkout[t].pc \in {"validate", "request", "save", "done", "failed"}
              => GroupsPartition(checkout[t].groups)
          /\ \A i \in DOMAIN preview : GroupsPartition(preview[i].groups))
    /\ [][\A t \in DOMAIN checkout : Grouped(t) =>
            LET groups == checkout'[t].groups IN
            /\ \A g \in DOMAIN groups : \A i \in DOMAIN groups[g].items :
                  \E n \in DOMAIN CartLines :
                     /\ CartLines[n].product_id = groups[g].items[i].product_id
                     /\ CartLines[n].quantity = groups[g].items[i].quantity
            /\ \A n \in DOMAIN CartLines :
                  LET p == CartLines[n].product_id IN
                  (/\ p \in DOMAIN products
                   /\ products[p].status = "published"
                   /\ products[p].seller_id \in DOMAIN users
                   /\ users[products[p].seller_id].stripe_connect_account_id /= NoAccount)
                  => Cardinality(PlacesOf(groups, p)) = 1]_vars

\* a cart of three lines grouped into three groups, two of one seller with
\* different payment types and two recurring ones of different sellers
C12_Witness ==
    \E t \in DOMAIN checkout :
        /\ checkout[t].pc = "validate"
        /\ Len(checkout[t].groups) = 3
        /\ \E g, h \in 1..3 : /\ g /= h
                               /\ checkout[t].groups[g].seller_id = checkout[t].groups[h].seller_id
        /\ \E g, h \in 1..3 : /\ g /= h
                               /\ checkout[t].groups[g].is_recurring
                               /\ checkout[t].groups[h].is_recurring

\* the seller of product p is a user with a connected account
SellerConnected(p) ==
    /\ products[p].seller_id \in DOMAIN users
    /\ users[products[p].seller_id].stripe_connect_account_id /= NoAccount

\* C13: when a request groups the cart, the lines of the groups are the cart
\* lines whose product is published and whose seller has a connected account;
\* a line whose seller has none is in no group.
C13_GroupsHoldConnectedSellersOnly ==
    [][\A t \in DOMAIN checkout : Grouped(t) =>
          \A n \in DOMAIN CartLines :
             LET p == CartLines[n].product_id IN
             (PlacesOf(checkout'[t].groups, p) /= {})
             <=> (/\ p \in DOMAIN products
                  /\ products[p].status = "published"
                  /\ SellerConnected(p))]_vars

\* C14: when a request or a preview groups the cart, a line whose product is
\* not in the store or not published is in no group, every group total is
\* the total of the group's own lines, and the request fails only when no
\* group is left (empty cart); the Order a request inserts holds products of
\* the groups of that request only.  So a product archived after a preview
\* showed it is in no Order of a request that starts later.
C14_UnpublishedLinesAreDropped ==
    [][/\ \A t \in DOMAIN checkout : Grouped(t) =>
            LET groups == checkout'[t].groups IN
            /\ \A n \in DOMAIN CartLines :
                  LET p == CartLines[n].product_id IN
                  (p \notin DOMAIN products \/ products[p].status /= "published")
                  => PlacesOf(groups, p) = {}
            /\ \A g \in DOMAIN groups :
                  2 * Abs(groups[g].group_total_price - SumLines(groups[g].items)) <= MinorUnit
            /\ checkout'[t].pc = "failed"
                  => (groups = <<>> /\ checkout'[t].detail = "Cart is empty")
       /\ preview' /= preview =>
            \A n \in DOMAIN CartLines :
               LET p == CartLines[n].product_id IN
               (p \notin DOMAIN products \/ products[p].status /= "published")
               => PlacesOf(preview'[1].groups, p) = {}
       /\ \A t \in DOMAIN checkout :
            (checkout[t].pc = "validate" /\ Len(orders') > Len(orders))
            => ProductIdsOf(orders'[Len(orders')].items)
                  = ProductIdsOf(checkout[t].groups[checkout[t].idx].items)]_vars

\* a preview showed a product, its seller archived it, and a request that
\* grouped the cart afterwards has ended with an Order without it
C14_Witness ==
    \E t \in DOMAIN checkout, p \in DOMAIN products :
        /\ Len(preview) = 1
        /\ PlacesOf(preview[1].groups, p) /= {}
        /\ products[p].status = "archived"
        /\ p \in ProductIdsOf(carts[FindCart(carts, Buyer)].items)
        /\ checkout[t].pc = "done"
        /\ PlacesOf(checkout[t].groups, p) = {}
        /\ \A i \in DOMAIN checkout[t].order_ids :
              p \notin ProductIdsOf(orders[checkout[t].order_ids[i]].items)

\* the group request t is about to process cannot be checked out: its seller
\* has no connected account or one of its products has no Stripe price
Unsellable(t) ==
    LET group == checkout[t].groups[checkout[t].idx] IN
    \/ users[group.seller_id].stripe_connect_account_id = NoAccount
    \/ \E i \in DOMAIN group.items : group.items[i].product.stripe_price_id = "none"

\* the details of the failures of the seller check and of the price check
ValidationDetails ==
    {"Checkout error: 400: Seller has not completed Stripe onboarding",
     "Checkout error: 400: Product is missing Stripe price configuration"}

\* C15: a request whose cart yields no group, and a request at a group whose
\* seller has no connected account or one of whose items has no price
\* reference, fails in that step with no Order inserted and no provider
\* session created, and a request that has failed that way has an Order for
\* each group before that one only.
C15_ValidationPrecedesWrites ==
    /\ [][\A t \in DOMAIN checkout :
            /\ (Grouped(t) /\ checkout'[t].groups = <<>>)
               => /\ checkout'[t].pc = "failed"
                  /\ orders' = orders
                  /\ stripe_sessions' = stripe_sessions
            /\ (checkout[t].pc = "validate" /\ Unsellable(t) /\ checkout'[t] /= checkout[t])
               => /\ checkout'[t].pc = "failed"
                  /\ orders' = orders
                  /\ stripe_sessions' = stripe_sessions]_vars
    /\ [](\A t \in DOMAIN checkout :
            (checkout[t].pc = "failed" /\ checkout[t].detail \in ValidationDetails)
            => Len(checkout[t].order_ids) = checkout[t].idx - 1)

\* a request has created the Order and session of its first group and has
\* failed at the second, which holds a product without price reference
C15_Witness ==
    \E t \in DOMAIN checkout :
        /\ checkout[t].pc = "failed"
        /\ checkout[t].idx = 2
        /\ checkout[t].detail = "Checkout error: 400: Product is missing Stripe price configuration"
        /\ Len(orders) = 1
        /\ Len(stripe_sessions) = 1

\* C16: a request that failed because the cart was empty, the seller not
\* onboarded or a price reference missing has ended with a 4xx status.
C16_ValidationErrorsAre4xx ==
    \A t \in DOMAIN checkout :
        (checkout[t].pc = "failed"
         /\ (checkout[t].detail = "Cart is empty"
             \/ (checkout[t].idx > 0 /\ Unsellable(t))))
        => checkout[t].result \in 400..499

\* C17: a reconciliation goes on to the provider only with the Order that
\* stores its session; the one started for a session no Order stores ends as
\* "not found" in the log of the background task, with no reconciliation left
\* in flight for it and every Order, cart and create-sessions request as it was.
C17_UnknownSessionChangesNothing ==
    [][/\ \A k \in BagToSet(hooks') :
            (k.pc = "retrieve" /\ CopiesIn(k, hooks') > CopiesIn(k, hooks))
            => /\ FindOrderBySession(orders, k.session_id) /= 0
               /\ k.order = orders[FindOrderBySession(orders, k.session_id)]
       /\ \A sid \in DOMAIN stripe_sessions :
            (<<sid, "not_found">> \in hook_log' \ hook_log)
            => /\ FindOrderBySession(orders, sid) = 0
               /\ hooks' = hooks
               /\ orders' = orders
               /\ carts' = carts
               /\ checkout' = checkout]_vars

\* the event of a session that no Order stores has been delivered and
\* dropped: the Order created for the session is still pending
C17_Witness ==
    \E sid \in DOMAIN stripe_sessions :
        /\ <<sid, "not_found">> \in hook_log
        /\ FindOrderBySession(orders, sid) = 0
        /\ hooks = EmptyBag
        /\ orders[stripe_sessions[sid].metadata_order_id].status = PENDING

\* a step of the listener: the only steps of the webhook specification that
\* count a request
Listened == requests' = requests + 1

\* C18: a webhook request without signature header, or one whose signature or
\* payload fails verification, is answered with status 400, schedules no
\* background task and changes no Order, cart or user.
C18_UnverifiedRequestIsRejected ==
    [][(Listened /\ webhook_response'[1].signature /= "valid")
       => /\ webhook_response'[1].status = 400
          /\ hooks' = hooks
          /\ orders' = orders
          /\ carts' = carts
          /\ users' = users
          /\ hook_log' = hook_log]_vars

\* after a verified event, a request with an invalid signature has been
\* answered with 400 while the task of the verified one is still in flight
C18_Witness ==
    /\ Len(webhook_response) = 1
    /\ webhook_response[1].signature = "invalid"
    /\ webhook_response[1].status = 400
    /\ \E k \in BagToSet(hooks) : k.pc = "find"
    /\ \A i \in DOMAIN orders : orders[i].status = PENDING

Returns(k) ==
    /\ k.pc \in {"account", "account_save"}
    /\ CopiesIn(k, hooks') < CopiesIn(k, hooks)
    /\ BagCardinality(hooks') < BagCardinality(hooks)

\* the seller the task is about, "none" if no user has the account
SellerOf(k) ==
    IF k.pc = "account_save" THEN k.user_id
    ELSE get_user_by_stripe_connect_id(users, k.connect_id)

BothEnabled(k) == k.charges_enabled /\ k.payouts_enabled

C21_AccountUpdateIsIdempotent ==
    [][\A k \in BagToSet(hooks) :
          /\ (k.pc = "account" /\ CopiesIn(k, hooks') < CopiesIn(k, hooks))
             => LET u == get_user_by_stripe_connect_id(users, k.connect_id)
                    unchanged == u = "none"
                                 \/ users[u].stripe_provider_status
                                      = target_status(users[u].stripe_provider_status,
                                                      k.charges_enabled, k.payouts_enabled)
                IN  /\ users' = users
                    /\ unchanged => BagCardinality(hooks') < BagCardinality(hooks)
          /\ (k.pc = "account_save" /\ CopiesIn(k, hooks') < CopiesIn(k, hooks)
              /\ users'[k.user_id] = k.user)
             => users'[k.user_id].stripe_provider_status
                  = target_status(users'[k.user_id].stripe_provider_status,
                                  k.charges_enabled, k.payouts_enabled)]_vars

\* one event has been handled and written, and the same event is about to
\* be handled again: its task will find the stored status equal to its target
C21_Witness ==
    \E k, w \in BagToSet(hooks) :
        /\ k.pc = "account"
        /\ w.pc = "account_save"
        /\ w.connect_id = k.connect_id
        /\ w.charges_enabled = k.charges_enabled
        /\ w.payouts_enabled = k.payouts_enabled
        /\ users[w.user_id] = w.user

QuantityOf(items, p) ==
    IF IndexOfProduct(items, p) = 0 THEN 0 ELSE items[IndexOfProduct(items, p)].quantity

\* the item list of the cart of u, empty when u has no cart
ItemsOf(cs, u) ==
    IF FindCart(cs, u) = 0 THEN <<>> ELSE cs[FindCart(cs, u)].items

\* C23: every line of every cart has a quantity above 0 and no cart has two
\* lines of one product; add_item of a product adds the quantity to the one
\* the cart had (0 without a line) and leaves the other lines as they were;
\* update_item_quantity with a quantity of 0 or less removes the line of the
\* product and leaves the others.
C23_CartLinesAreWellFormed ==
    /\ [](\A c \in DOMAIN carts :
            /\ \A i \in DOMAIN carts[c].items : carts[c].items[i].quantity > 0
            /\ \A i, j \in DOMAIN carts[c].items :
                   carts[c].items[i].product_id = carts[c].items[j].product_id => i = j)
    /\ [][/\ \A p \in ProductIds, q \in 1..MaxQty :
               add_item(Buyer, p, q) =>
                   /\ QuantityOf(ItemsOf(carts', Buyer), p) = QuantityOf(ItemsOf(carts, Buyer), p) + q
                   /\ SelectSeqBy(ItemsOf(carts', Buyer), {p}) = SelectSeqBy(ItemsOf(carts, Buyer), {p})
          /\ \A p \in ProductIds, q \in (-1)..0 :
               update_item_quantity(Buyer, p, q) =>
                   /\ p \notin ProductIdsOf(ItemsOf(carts', Buyer))
                   /\ ItemsOf(carts', Buyer) = SelectSeqBy(ItemsOf(carts, Buyer), {p})]_vars

\* a checkout completion has taken the paid lines out of the cart, and the
\* cart holds one line, of the largest quantity, of a product no Order has
C23_Witness ==
    /\ \E sid \in DOMAIN stripe_sessions : <<sid, "done">> \in hook_log
    /\ \E i \in DOMAIN ItemsOf(carts, Buyer) :
          /\ ItemsOf(carts, Buyer)[i].quantity = MaxQty
          /\ \A o \in DOMAIN orders :
                ItemsOf(carts, Buyer)[i].product_id \notin ProductIdsOf(orders[o].items)

\* C24: a cart-preview request leaves the cart, order, product and user
\* stores as they were, also when the user has no cart.
C24_PreviewChangesNoStore ==
    [][get_grouped_cart(Buyer) => UNCHANGED <<carts, orders, products, users>>]_vars

\* C25: every session requested is routed to the connected account stored on
\* its Order; it is in subscription mode, with the percentage fee and no
\* fixed fee, exactly when the Order is recurring, and otherwise in payment
\* mode with no percentage and a fixed fee that in minor units equals the
\* platform_fee_amount of the Order.
C25_SessionRequestCarriesTheOrderFee ==
    \A s \in DOMAIN stripe_sessions :
        LET session == stripe_sessions[s]
            order == orders[session.metadata_order_id]
        IN  /\ session.stripe_account = order.stripe_account_id
            /\ session.mode = "subscription" <=> order.is_recurring
            /\ order.is_recurring =>
                  /\ session.subscription_data = <<[application_fee_percent |-> PLATFORM_FEE_PERCENT]>>
                  /\ session.payment_intent_data = <<>>
            /\ ~order.is_recurring =>
                  /\ session.mode = "payment"
                  /\ session.subscription_data = <<>>
                  /\ Len(session.payment_intent_data) = 1
                  /\ session.payment_intent_data[1].application_fee_amount * MinorUnit
                        = order.platform_fee_amount

\* C26: GET /orders/{order_id} answers 404 for an id no Order has, 403 for an
\* Order of another user, and returns the stored Order, with 200, only to the
\* user stored as its owner; GET /orders returns only stored Orders whose
\* user_id is the caller's.
C26_OrdersGoToTheirOwner ==
    \A r \in DOMAIN orders_response :
        LET resp == orders_response[r]
        IN  /\ \A i \in DOMAIN resp.body :
                  /\ resp.body[i].user_id = resp.user
                  /\ resp.body[i].id \in DOMAIN orders
                  /\ resp.body[i] = orders[resp.body[i].id]
            /\ resp.route = "get_order" =>
                  /\ resp.order_id \notin DOMAIN orders => resp.status = 404 /\ resp.body = <<>>
                  /\ resp.order_id \in DOMAIN orders =>
                        IF orders[resp.order_id].user_id = resp.user
                        THEN resp.status = 200 /\ resp.body = <<orders[resp.order_id]>>
                        ELSE resp.status = 403 /\ resp.body = <<>>

\* a user has asked for an Order of the other user and has been refused,
\* in a store that also holds an Order of the asking user
C26_Witness ==
    \E r \in DOMAIN orders_response :
        /\ orders_response[r].route = "get_order"
        /\ orders_response[r].status = 403
        /\ orders_response[r].order_id \in DOMAIN orders
        /\ \E i \in DOMAIN orders : orders[i].user_id = orders_response[r].user

\* C27: when the reconciliation of a session writes the cart, the cart
\* becomes the stored cart without the lines of the products of the paid
\* Order: what a cart operation has written since the task read the cart
\* is kept, and the paid lines are gone.
C27_ClearingKeepsCartOperations ==
    [][\A k \in BagToSet(hooks) :
          (k.pc = "cart_save" /\ SaveCart(k)) =>
              carts'[k.cart].items =
                  SelectSeqBy(carts[k.cart].items,
                              ProductIdsOf(orders[FindOrderBySession(orders, k.session_id)].items))]_vars

\* C28: no user has two Cart documents, and a request that has passed
\* get_or_create_cart holds the cart the store finds for its user.
C28_OneCartPerUser ==
    /\ \A i, j \in DOMAIN carts : carts[i].user_id = carts[j].user_id => i = j
    /\ \A t \in DOMAIN cart_calls :
          cart_calls[t].pc \in {"found", "done"} =>
              cart_calls[t].cart = FindCart(carts, cart_calls[t].user_id)

\* C29: when an Order is inserted, every product of its snapshot is in the
\* catalogue and published, and its seller has a connected account.
C29_InsertedOrdersAreSellable ==
    [][Len(orders') > Len(orders) =>
          LET order == orders'[Len(orders')]
          IN  /\ \A i \in DOMAIN order.items :
                    /\ order.items[i].product_id \in DOMAIN products
                    /\ products[order.items[i].product_id].status = "published"
              /\ order.seller_id \in DOMAIN users
              /\ users[order.seller_id].stripe_connect_account_id /= NoAccount]_vars

\* C30: a seller whose stored status is ACTIVE has the stored flag
\* stripe_activate_connect_complete set, whichever of the account.updated
\* handler, the check-connect-status route and the resume-stripe-connect
\* route has written the status.
C30_ActiveSellersHaveTheFlag ==
    \A u \in DOMAIN users :
        users[u].stripe_provider_status = ACTIVE => users[u].stripe_activate_connect_complete

====
